---- MODULE Spec2Model ----
(***************************************************************************)
(* The AGP session engine of the tencent-access extension:                 *)
(*   - TencentAccessWebSocketClient: connection lifecycle, reconnection,   *)
(*     heartbeat, msg_id deduplication and outbound send;                  *)
(*   - handlePrompt / handleCancel: the Turn registry (activeTurns), the   *)
(*     agent-event listener and the terminal responses.                    *)
(***************************************************************************)
EXTENDS Integers, Sequences, FiniteSets, TLC

(***************************************************************************)
(* Bounds of the model.                                                    *)
(***************************************************************************)
\* connect() calls over a run (each constructs at most one socket)
MaxConnects == 4
\* inbound frames delivered to handleRawMessage over a run
MaxFrames == 4
\* the cache ceiling, scaled down from the 1000 of the source
MAX_MSG_ID_CACHE == 2
\* config.maxReconnectAttempts is drawn from 0..MaxReconnectChoice
MaxReconnectChoice == 2

MsgIds == 1..(MAX_MSG_ID_CACHE + 1)
Methods == {"session.prompt", "session.cancel", "ping"}
\* an inbound frame: text that JSON.parse rejects, or an envelope
Frames == {[bad |-> TRUE, msg_id |-> 0, method |-> "none"]}
          \cup [bad : {FALSE}, msg_id : MsgIds, method : Methods]

NoSocket == 0

\* config.reconnectInterval: the constructor's default, and the values the
\* model draws it from (the second one reaches the cap at the second attempt)
DefaultReconnectInterval == 3000
ReconnectIntervals == {DefaultReconnectInterval, 20000}
\* the second argument of Math.min in scheduleReconnect
RECONNECT_DELAY_CAP == 25000
\* delays are kept in 1/DelayScale ms, which holds
\* reconnectInterval * 1.5^(k-1) exactly for every k whose delay is below the cap
DelayScale == 2^4

\* handlePrompt invocations over a run
MaxTurns == 2
\* handleCancel invocations over a run
MaxCancels == 2
\* agent events emitted on the event bus over a run
MaxEvents == 1

SessionIds == {"s1"}
PromptIds == {"p1", "p2"}
\* the texts a deliver call may carry ("" for none)
DeliverTexts == {"", "answer"}
DeliverKinds == {"block", "final"}
\* the guid and user_id of the inbound envelopes, and those of the config
InboundGuid == "g1"
InboundUserId == "u1"
ConfigGuid == ""
ConfigUserId == ""
NoTurn == 0
\* the agent events of the bus: an assistant delta, and a tool start that
\* carries no toolCallId
\* call names the tool invocation a tool event belongs to (0 for none)
AgentEvents ==
    { [stream |-> "assistant", delta |-> <<"H">>, text |-> <<>>, phase |-> "",
       toolCallId |-> "", isError |-> FALSE, result |-> <<>>, call |-> 0],
      [stream |-> "tool", delta |-> <<>>, text |-> <<>>, phase |-> "start",
       toolCallId |-> "", isError |-> FALSE, result |-> <<>>, call |-> 1] }

\* tool events emitted over a run of the tool-call specification
MaxToolEvents == 3
\* the tool invocations of a run: the runtime supplies a toolCallId for the
\* events of the last one and none for the events of the others
ToolCalls == {1, 2, 3}
SuppliedIdCalls == {3}
ToolPhases == {"start", "update", "result"}
ToolEvents ==
    { [stream |-> "tool", delta |-> <<>>, text |-> <<>>, phase |-> ph,
       toolCallId |-> IF k \in SuppliedIdCalls THEN "call" ELSE "",
       isError |-> FALSE, result |-> <<>>, call |-> k] :
      ph \in ToolPhases, k \in ToolCalls }

\* assistant events that carry only a cumulative text: the texts are the
\* strings over Chars of at most MaxTextLen characters ("" for a text left out)
MaxTextLen == 2
Chars == {"H", "i"}
Texts == UNION {[1..n -> Chars] : n \in 0..MaxTextLen}
CumulativeEvents ==
    { [stream |-> "assistant", delta |-> <<>>, text |-> x, phase |-> "",
       toolCallId |-> "", isError |-> FALSE, result |-> <<>>, call |-> 0] :
      x \in Texts }
\* assistant events emitted over a run of the text-stream specification
MaxTextEvents == 3

\* tool events of one invocation in every phase, one of them a phase the
\* listener does not know, with and without the error flag
PhaseEvents ==
    { [stream |-> "tool", delta |-> <<>>, text |-> <<>>, phase |-> ph,
       toolCallId |-> "call", isError |-> err, result |-> <<>>, call |-> 1] :
      ph \in ToolPhases \cup {"end"}, err \in BOOLEAN }
\* tool events emitted over a run of the phase specification
MaxPhaseEvents == 2

VARIABLES
    client,        \* the fields of the TencentAccessWebSocketClient instance
    sockets,       \* the ws sockets constructed so far, by their readyState
    fired,         \* fired[id]: onPrompt/onCancel invocations for msg_id id
    onErrorCalls,  \* invocations of callbacks.onError
    frames,        \* inbound frames delivered so far
    stopped,       \* stop() was called and start() has not been called since
    turns,         \* the ActiveTurn objects and closures of the handlePrompt calls
    activeTurns,   \* the registry: prompt_id -> index of the registered Turn
    outbox,        \* the sendEnvelope calls made by the handlers, in order
    cancels,       \* handleCancel invocations so far
    events         \* agent events emitted so far

clientVars == <<client, sockets, fired, onErrorCalls, frames, stopped>>
turnVars == <<turns, activeTurns, outbox, cancels, events>>
vars == <<client, sockets, fired, onErrorCalls, frames, stopped,
          turns, activeTurns, outbox, cancels, events>>

(***************************************************************************)
(* TencentAccessWebSocketClient                                            *)
(***************************************************************************)

\* the instance right after the constructor, for a given maxReconnectAttempts;
\* urlAccepted tells whether `new WebSocket(url)` accepts config.url or throws
newClient(maxAttempts, urlAccepted) ==
    [ state                |-> "disconnected",
      ws                   |-> NoSocket,
      reconnectTimer       |-> FALSE,
      pendingTimeouts      |-> 0,
      heartbeatTimer       |-> FALSE,
      reconnectAttempts    |-> 0,
      processedMsgIds      |-> <<>>,
      msgIdCleanupTimer    |-> FALSE,
      maxReconnectAttempts |-> maxAttempts,
      reconnectInterval    |-> DefaultReconnectInterval,
      delay                |-> 0,
      urlAccepted          |-> urlAccepted ]

clearReconnectTimer(c) ==
    IF c.reconnectTimer
    THEN [c EXCEPT !.reconnectTimer = FALSE, !.pendingTimeouts = @ - 1]
    ELSE c

clearHeartbeat(c) == [c EXCEPT !.heartbeatTimer = FALSE]

startHeartbeat(c) == [clearHeartbeat(c) EXCEPT !.heartbeatTimer = TRUE]

clearMsgIdCleanup(c) == [c EXCEPT !.msgIdCleanupTimer = FALSE]

startMsgIdCleanup(c) == [clearMsgIdCleanup(c) EXCEPT !.msgIdCleanupTimer = TRUE]

\* Math.min(a, b)
Min(a, b) == IF a <= b THEN a ELSE b

\* reconnectInterval * Math.pow(1.5, n), in 1/DelayScale ms
RECURSIVE backoff(_, _)
backoff(interval, n) ==
    IF n = 0 THEN interval * DelayScale ELSE (backoff(interval, n - 1) * 3) \div 2

\* scheduleReconnect with a linear backoff: reconnectInterval * attempts
scheduleReconnect_Linear(c) ==
    IF c.maxReconnectAttempts > 0 /\ c.reconnectAttempts >= c.maxReconnectAttempts
    THEN [c EXCEPT !.state = "disconnected"]
    ELSE [c EXCEPT !.state = "reconnecting",
                   !.reconnectAttempts = @ + 1,
                   !.delay = Min(c.reconnectInterval * (c.reconnectAttempts + 1) * DelayScale,
                                 RECONNECT_DELAY_CAP * DelayScale),
                   !.reconnectTimer = TRUE,
                   !.pendingTimeouts = @ + 1]

\* scheduleReconnect that counts the attempt but arms no timeout
scheduleReconnect_NoTimer(c) ==
    IF c.maxReconnectAttempts > 0 /\ c.reconnectAttempts >= c.maxReconnectAttempts
    THEN [c EXCEPT !.state = "disconnected"]
    ELSE [c EXCEPT !.state = "reconnecting", !.reconnectAttempts = @ + 1]

\* scheduleReconnect without the check of maxReconnectAttempts
scheduleReconnect_NoCeiling(c) ==
    [c EXCEPT !.state = "reconnecting",
              !.reconnectAttempts = @ + 1,
              !.delay = Min(backoff(c.reconnectInterval, c.reconnectAttempts),
                            RECONNECT_DELAY_CAP * DelayScale),
              !.reconnectTimer = TRUE,
              !.pendingTimeouts = @ + 1]

\* delay is the second argument of the last setTimeout call, in 1/DelayScale ms
scheduleReconnect(c) ==
    IF c.maxReconnectAttempts > 0 /\ c.reconnectAttempts >= c.maxReconnectAttempts
    THEN [c EXCEPT !.state = "disconnected"]
    ELSE [c EXCEPT !.state = "reconnecting",
                   !.reconnectAttempts = @ + 1,
                   !.delay = Min(backoff(c.reconnectInterval, c.reconnectAttempts),
                                 RECONNECT_DELAY_CAP * DelayScale),
                   !.reconnectTimer = TRUE,
                   !.pendingTimeouts = @ + 1]

handleConnectionError(c) == scheduleReconnect(c)

\* connect(): sock is the socket `new WebSocket` returns when it does not throw
connect(c, sock) ==
    LET c1 == [c EXCEPT !.state = "connecting"]
    IN  IF c.urlAccepted THEN [c1 EXCEPT !.ws = sock] ELSE handleConnectionError(c1)

start(c, sock) ==
    IF c.state \in {"connected", "connecting"}
    THEN c
    ELSE startMsgIdCleanup(connect(c, sock))

stop(c) ==
    LET c1 == clearMsgIdCleanup(clearHeartbeat(clearReconnectTimer(
                  [c EXCEPT !.state = "disconnected"])))
    IN  [c1 EXCEPT !.processedMsgIds = <<>>, !.ws = NoSocket]

\* handleOpen that leaves reconnectAttempts as it is
handleOpen_NoReset(c) ==
    startHeartbeat([c EXCEPT !.state = "connected"])

handleOpen(c) ==
    startHeartbeat([c EXCEPT !.state = "connected", !.reconnectAttempts = 0])

\* handleClose that also empties the dedup cache
handleClose_ClearsCache(c) ==
    LET c1 == [clearHeartbeat(c) EXCEPT !.ws = NoSocket, !.processedMsgIds = <<>>]
    IN  IF c1.state # "disconnected" THEN scheduleReconnect(c1) ELSE c1

\* handleClose that never schedules a reconnect
handleClose_NoReconnect(c) == [clearHeartbeat(c) EXCEPT !.ws = NoSocket]

handleClose(c) ==
    LET c1 == [clearHeartbeat(c) EXCEPT !.ws = NoSocket]
    IN  IF c1.state # "disconnected" THEN scheduleReconnect(c1) ELSE c1

\* the callback of the setTimeout armed by scheduleReconnect
reconnectTimerFired(c, sock) ==
    connect([c EXCEPT !.reconnectTimer = FALSE, !.pendingTimeouts = @ - 1], sock)

InSeq(x, s) == \E i \in 1..Len(s) : s[i] = x

\* rawMessageCallback without the processedMsgIds.has check
rawMessageCallback_NoDedup(c, f) ==
    IF f.bad THEN "onError"
    ELSE IF f.method = "session.prompt" THEN "onPrompt"
    ELSE IF f.method = "session.cancel" THEN "onCancel"
    ELSE "none"

\* rawMessageCallback whose catch block swallows the parse error
rawMessageCallback_SilentParseError(c, f) ==
    IF f.bad THEN "none"
    ELSE IF InSeq(f.msg_id, c.processedMsgIds) THEN "none"
    ELSE IF f.method = "session.prompt" THEN "onPrompt"
    ELSE IF f.method = "session.cancel" THEN "onCancel"
    ELSE "none"

\* the callback handleRawMessage invokes for a frame
rawMessageCallback(c, f) ==
    IF f.bad THEN "onError"
    ELSE IF InSeq(f.msg_id, c.processedMsgIds) THEN "none"
    ELSE IF f.method = "session.prompt" THEN "onPrompt"
    ELSE IF f.method = "session.cancel" THEN "onCancel"
    ELSE "none"

\* handleRawMessage that treats a parse error as a connection error
handleRawMessage_ReconnectOnParseError(c, f) ==
    IF f.bad THEN handleConnectionError(c)
    ELSE IF InSeq(f.msg_id, c.processedMsgIds) THEN c
    ELSE [c EXCEPT !.processedMsgIds = Append(@, f.msg_id)]

\* the fields of the instance handleRawMessage changes: a frame that parses
\* and whose msg_id is new records the msg_id
handleRawMessage(c, f) ==
    IF f.bad \/ InSeq(f.msg_id, c.processedMsgIds)
    THEN c
    ELSE [c EXCEPT !.processedMsgIds = Append(@, f.msg_id)]

\* entries.slice(-MAX_MSG_ID_CACHE / 2): the count is truncated to an integer
sliceLast(s, n) ==
    IF n = 0 THEN s
    ELSE SubSeq(s, (IF Len(s) > n THEN Len(s) - n ELSE 0) + 1, Len(s))

\* msgIdCleanupTick that keeps the oldest half: entries.slice(0, MAX / 2)
msgIdCleanupTick_KeepOldest(c) ==
    IF Len(c.processedMsgIds) > MAX_MSG_ID_CACHE
    THEN [c EXCEPT !.processedMsgIds = SubSeq(@, 1, MAX_MSG_ID_CACHE \div 2)]
    ELSE c

\* the callback of the setInterval armed by startMsgIdCleanup
msgIdCleanupTick(c) ==
    IF Len(c.processedMsgIds) > MAX_MSG_ID_CACHE
    THEN [c EXCEPT !.processedMsgIds = sliceLast(@, MAX_MSG_ID_CACHE \div 2)]
    ELSE c

(***************************************************************************)
(* Outbound send                                                           *)
(***************************************************************************)
\* an argument the caller left out
Undefined == "undefined"

\* transmits without the state check: only `if (!this.ws) return`
transmits_WhenSocketPresent(c, socks) == c.ws # NoSocket

\* sendEnvelope reaches ws.send of an open socket
transmits(c, socks) ==
    /\ c.ws # NoSocket
    /\ c.state = "connected"
    /\ socks[c.ws] = "open"

\* the record of one sendEnvelope call: the envelope it builds, whether it
\* was written to the transport (sent) or discarded, and the socket it was
\* written to (via)
sendEnvelope(c, socks, method, payload, guid, userId) ==
    [ method        |-> method,
      guid          |-> IF guid = Undefined THEN ConfigGuid ELSE guid,
      user_id       |-> IF userId = Undefined THEN ConfigUserId ELSE userId,
      session_id    |-> payload.session_id,
      prompt_id     |-> payload.prompt_id,
      kind          |-> payload.kind,
      content       |-> payload.content,
      error         |-> payload.error,
      tool_call_id  |-> payload.tool_call_id,
      status        |-> payload.status,
      turn          |-> payload.turn,
      run           |-> payload.run,
      call          |-> payload.call,
      sent          |-> transmits(c, socks),
      via           |-> IF transmits(c, socks) THEN c.ws ELSE NoSocket ]

\* payload of session.promptResponse; turn names the Turn object it answers
PromptResponsePayload(sid, pid, stopReason, content, error, t) ==
    [ session_id |-> sid, prompt_id |-> pid, kind |-> stopReason,
      content |-> content, error |-> error,
      tool_call_id |-> 0, status |-> "", turn |-> t, run |-> NoTurn, call |-> 0 ]

\* payload of session.update; run names the Turn whose agent run emitted the event
UpdatePayload(sid, pid, updateType, content, toolCallId, status, t, r) ==
    [ session_id |-> sid, prompt_id |-> pid, kind |-> updateType,
      content |-> content, error |-> FALSE,
      tool_call_id |-> toolCallId, status |-> status, turn |-> t, run |-> r,
      call |-> 0 ]

sendPromptResponse(c, socks, payload, guid, userId) ==
    sendEnvelope(c, socks, "session.promptResponse", payload, guid, userId)

sendUpdate(c, socks, payload, guid, userId) ==
    sendEnvelope(c, socks, "session.update", payload, guid, userId)

(***************************************************************************)
(* handlePrompt / handleCancel                                             *)
(***************************************************************************)
\* the Turn object and the closure variables of one handlePrompt call;
\* extending records that every cumulative-only text the listener received
\* so far extended the text emitted before it, socket the socket this.ws named
\* when handlePrompt was called, lastFinalCall the text of the last deliver call
\* of kind "final" that carried text, as the reply specification records it
newTurn(sid, pid, guid, userId) ==
    [ sessionId        |-> sid,
      promptId         |-> pid,
      guid             |-> guid,
      userId           |-> userId,
      cancelled        |-> FALSE,
      subscribed       |-> FALSE,
      unsubscribeCalls |-> 0,
      pc               |-> "start",
      finalText        |-> "",
      lastEmittedText  |-> <<>>,
      toolCallCounter  |-> 0,
      extending        |-> TRUE,
      socket           |-> NoSocket,
      lastFinalCall    |-> "" ]

\* the function onAgentEvent returned for Turn t is called
unsubscribe(ts, t) ==
    [ts EXCEPT ![t].subscribed = FALSE, ![t].unsubscribeCalls = @ + 1]

\* a is a prefix of b
IsPrefix(a, b) == Len(a) <= Len(b) /\ SubSeq(b, 1, Len(a)) = a

\* slice that returns the whole text, so that the cumulative text is re-sent
slice_Whole(text, n) == text

\* text.slice(n)
slice(text, n) == IF n >= Len(text) THEN <<>> ELSE SubSeq(text, n + 1, Len(text))

\* toolCallIdOf that synthesizes one id per Turn and invocation
toolCallIdOf_PerCall(tn, e) ==
    IF e.toolCallId # "" THEN 100 + e.call ELSE e.call

\* a synthesized tool call id `tc-n` is modelled by n, the id the runtime
\* supplied for invocation k by 100 + k, above every counter value
toolCallIdOf(tn, e) ==
    IF e.toolCallId # "" THEN 100 + e.call ELSE tn.toolCallCounter + 1

\* toolStatus that reports every result as completed
toolStatus_AlwaysCompleted(e) == "completed"

\* the status of the update for a result event: isError ? "failed" : "completed"
toolStatus(e) == IF e.isError THEN "failed" ELSE "completed"

\* the listener of Turn object tn (index t) receives event e emitted by the run
\* of Turn r: the closure afterwards and the updates it sends
listener(c, socks, tn, t, r, e) ==
    IF tn.cancelled THEN [turn |-> tn, out |-> <<>>]
    ELSE IF e.stream = "assistant" THEN
        LET manual == e.delta = <<>> /\ e.text # <<>> /\ e.text # tn.lastEmittedText
            textToSend == IF manual THEN slice(e.text, Len(tn.lastEmittedText))
                          ELSE e.delta
            last == IF manual THEN e.text
                    ELSE IF e.delta # <<>> THEN tn.lastEmittedText \o e.delta
                    ELSE tn.lastEmittedText
        IN  [ turn |-> [tn EXCEPT !.lastEmittedText = last,
                                    !.extending = @ /\ (e.delta # <<>>
                                        \/ IsPrefix(tn.lastEmittedText, e.text))],
              out  |-> IF textToSend # <<>>
                       THEN << sendUpdate(c, socks,
                                 UpdatePayload(tn.sessionId, tn.promptId, "message_chunk",
                                               textToSend, 0, "", t, r),
                                 tn.guid, tn.userId) >>
                       ELSE <<>> ]
    ELSE IF e.stream = "tool" THEN
        LET id == toolCallIdOf(tn, e)
            tn1 == IF e.toolCallId # "" THEN tn
                   ELSE [tn EXCEPT !.toolCallCounter = @ + 1]
            upd(type, status, content) ==
                << sendUpdate(c, socks,
                     [UpdatePayload(tn.sessionId, tn.promptId, type, content, id, status, t, r)
                         EXCEPT !.call = e.call],
                     tn.guid, tn.userId) >>
        IN  [ turn |-> tn1,
              out  |-> IF e.phase = "start" THEN upd("tool_call", "in_progress", <<>>)
                       ELSE IF e.phase = "update"
                            THEN upd("tool_call_update", "in_progress", e.text)
                       ELSE IF e.phase = "result"
                            THEN upd("tool_call_update", toolStatus(e), e.result)
                       ELSE <<>> ]
    ELSE [turn |-> tn, out |-> <<>>]

\* emitAgentEvent whose updates overtake the envelopes sent before them
RECURSIVE emitAgentEvent_NewestFirst(_, _, _, _, _, _, _)
emitAgentEvent_NewestFirst(c, socks, ts, box, i, r, e) ==
    IF i > Len(ts) THEN [turns |-> ts, outbox |-> box]
    ELSE IF ~ts[i].subscribed
         THEN emitAgentEvent_NewestFirst(c, socks, ts, box, i + 1, r, e)
    ELSE LET res == listener(c, socks, ts[i], i, r, e)
         IN  emitAgentEvent_NewestFirst(c, socks, [ts EXCEPT ![i] = res.turn],
                                        res.out \o box, i + 1, r, e)

\* the event bus calls every subscribed listener, in subscription order
RECURSIVE emitAgentEvent(_, _, _, _, _, _, _)
emitAgentEvent(c, socks, ts, box, i, r, e) ==
    IF i > Len(ts) THEN [turns |-> ts, outbox |-> box]
    ELSE IF ~ts[i].subscribed THEN emitAgentEvent(c, socks, ts, box, i + 1, r, e)
    ELSE LET res == listener(c, socks, ts[i], i, r, e)
         IN  emitAgentEvent(c, socks, [ts EXCEPT ![i] = res.turn],
                            box \o res.out, i + 1, r, e)

\* handlePrompt up to its await: throws = TRUE when a call before the
\* subscription throws (getWecomRuntime, loadConfig, buildWebSocketMessageContext)
handlePromptStart(c, socks, ts, reg, box, sid, pid, guid, userId, throws) ==
    LET t == Len(ts) + 1
        tn == [newTurn(sid, pid, guid, userId) EXCEPT !.socket = c.ws]
    IN  IF throws
        THEN [ turns |-> Append(ts, [tn EXCEPT !.pc = "done"]),
               activeTurns |-> [reg EXCEPT ![pid] = NoTurn],
               outbox |-> Append(box, sendPromptResponse(c, socks,
                              PromptResponsePayload(sid, pid, "error", <<>>, TRUE, t),
                              guid, userId)) ]
        ELSE [ turns |-> Append(ts, [tn EXCEPT !.pc = "awaiting", !.subscribed = TRUE]),
               activeTurns |-> [reg EXCEPT ![pid] = t],
               outbox |-> box ]

\* handlePrompt after the dispatch call of Turn t resolved
handlePromptResolved(c, socks, ts, reg, box, t) ==
    LET tn == ts[t]
        ts1 == unsubscribe(ts, t)
    IN  [ turns |-> [ts1 EXCEPT ![t].pc = "done"],
          activeTurns |-> [reg EXCEPT ![tn.promptId] = NoTurn],
          outbox |-> Append(box,
              IF tn.cancelled
              THEN sendPromptResponse(c, socks,
                       PromptResponsePayload(tn.sessionId, tn.promptId, "cancelled",
                                             <<>>, FALSE, t),
                       tn.guid, tn.userId)
              ELSE sendPromptResponse(c, socks,
                       PromptResponsePayload(tn.sessionId, tn.promptId, "end_turn",
                           IF tn.finalText # "" THEN <<tn.finalText>> ELSE <<>>, FALSE, t),
                       tn.guid, tn.userId)) ]

\* handlePromptRejected whose catch block cleans up but sends no response
handlePromptRejected_NoResponse(c, socks, ts, reg, box, t) ==
    LET tn == ts[t]
        currentTurn == reg[tn.promptId]
        ts1 == IF currentTurn # NoTurn THEN unsubscribe(ts, currentTurn) ELSE ts
    IN  [ turns |-> [ts1 EXCEPT ![t].pc = "done"],
          activeTurns |-> [reg EXCEPT ![tn.promptId] = NoTurn],
          outbox |-> box ]

\* the catch block of handlePrompt after the dispatch call of Turn t rejected
handlePromptRejected(c, socks, ts, reg, box, t) ==
    LET tn == ts[t]
        currentTurn == reg[tn.promptId]
        ts1 == IF currentTurn # NoTurn THEN unsubscribe(ts, currentTurn) ELSE ts
    IN  [ turns |-> [ts1 EXCEPT ![t].pc = "done"],
          activeTurns |-> [reg EXCEPT ![tn.promptId] = NoTurn],
          outbox |-> Append(box, sendPromptResponse(c, socks,
                         PromptResponsePayload(tn.sessionId, tn.promptId, "error",
                                               <<>>, TRUE, t),
                         tn.guid, tn.userId)) ]

\* deliver that keeps the first final text and ignores the later ones
deliver_KeepFirst(ts, t, kind, text) ==
    IF ts[t].cancelled THEN ts
    ELSE IF kind = "final" /\ text # "" /\ ts[t].finalText = ""
         THEN [ts EXCEPT ![t].finalText = text]
    ELSE ts

\* the deliver callback handed to the dispatch call of Turn t
deliver(ts, t, kind, text) ==
    IF ts[t].cancelled THEN ts
    ELSE IF kind = "final" /\ text # "" THEN [ts EXCEPT ![t].finalText = text]
    ELSE ts

\* handleCancel that answers and deletes the entry, but neither marks the Turn
\* cancelled nor unsubscribes its listener
handleCancel_ResponseOnly(c, socks, ts, reg, box, sid, pid) ==
    LET t == reg[pid]
    IN  [ turns |-> ts,
          activeTurns |-> [reg EXCEPT ![pid] = NoTurn],
          outbox |-> Append(box, sendPromptResponse(c, socks,
                         PromptResponsePayload(sid, pid, "cancelled", <<>>, FALSE, t),
                         Undefined, Undefined)) ]

\* handleCancel that returns without a response when the Turn is not found
handleCancel_SilentWhenAbsent(c, socks, ts, reg, box, sid, pid) ==
    LET t == reg[pid]
    IN  IF t = NoTurn
        THEN [ turns |-> ts, activeTurns |-> reg, outbox |-> box ]
        ELSE [ turns |-> unsubscribe([ts EXCEPT ![t].cancelled = TRUE], t),
               activeTurns |-> [reg EXCEPT ![pid] = NoTurn],
               outbox |-> Append(box, sendPromptResponse(c, socks,
                              PromptResponsePayload(sid, pid, "cancelled", <<>>, FALSE, t),
                              Undefined, Undefined)) ]

\* handleCancel(message, client)
handleCancel(c, socks, ts, reg, box, sid, pid) ==
    LET t == reg[pid]
    IN  IF t = NoTurn
        THEN [ turns |-> ts,
               activeTurns |-> reg,
               outbox |-> Append(box, sendPromptResponse(c, socks,
                              PromptResponsePayload(sid, pid, "cancelled", <<>>, FALSE, NoTurn),
                              Undefined, Undefined)) ]
        ELSE [ turns |-> unsubscribe([ts EXCEPT ![t].cancelled = TRUE], t),
               activeTurns |-> [reg EXCEPT ![pid] = NoTurn],
               outbox |-> Append(box, sendPromptResponse(c, socks,
                              PromptResponsePayload(sid, pid, "cancelled", <<>>, FALSE, t),
                              Undefined, Undefined)) ]

(***************************************************************************)
(* The ws sockets.  readyState: "connecting", "open", "closing" (close()   *)
(* called on an open socket, its close event is still to come), "aborted"  *)
(* (close() called while connecting: error, then close, are to come),      *)
(* "failed" (error emitted, close is to come), "closed"; "threw" stands    *)
(* for a constructor call that threw.  Frames are delivered by open        *)
(* sockets only.                                                           *)
(***************************************************************************)
\* ws.close()
closeSocket(socks, s) ==
    IF s = NoSocket THEN socks
    ELSE [socks EXCEPT ![s] = IF @ = "open" THEN "closing"
                              ELSE IF @ = "connecting" THEN "aborted"
                              ELSE @]

Init ==
    /\ client \in {[newClient(m, u) EXCEPT !.reconnectInterval = i] :
                       m \in 0..MaxReconnectChoice, u \in BOOLEAN,
                       i \in ReconnectIntervals}
    /\ stopped = FALSE
    /\ sockets = <<>>
    /\ fired = [id \in MsgIds |-> 0]
    /\ onErrorCalls = 0
    /\ frames = 0
    /\ turns = <<>>
    /\ activeTurns = [p \in PromptIds |-> NoTurn]
    /\ outbox = <<>>
    /\ cancels = 0
    /\ events = 0

\* start(), called by the owner of the client
Start ==
    /\ client.state \in {"connected", "connecting"} \/ Len(sockets) < MaxConnects
    /\ client' = start(client, Len(sockets) + 1)
    /\ sockets' = IF client.state \in {"connected", "connecting"} THEN sockets
                  ELSE Append(sockets, IF client.urlAccepted THEN "connecting" ELSE "threw")
    /\ onErrorCalls' = IF client.state \in {"connected", "connecting"} \/ client.urlAccepted
                       THEN onErrorCalls ELSE onErrorCalls + 1
    /\ stopped' = FALSE
    /\ UNCHANGED <<fired, frames>>
    /\ UNCHANGED turnVars

\* stop(), called by the owner of the client
Stop ==
    /\ client' = stop(client)
    /\ sockets' = closeSocket(sockets, client.ws)
    /\ stopped' = TRUE
    /\ UNCHANGED <<fired, onErrorCalls, frames>>
    /\ UNCHANGED turnVars

\* the "open" event of socket s
HandleOpen(s) ==
    /\ sockets[s] = "connecting"
    /\ sockets' = [sockets EXCEPT ![s] = "open"]
    /\ client' = handleOpen(client)
    /\ UNCHANGED <<fired, onErrorCalls, frames, stopped>>
    /\ UNCHANGED turnVars

\* the "error" event of socket s; ws emits close after it
HandleError(s) ==
    /\ sockets[s] \in {"connecting", "open", "aborted"}
    /\ sockets' = [sockets EXCEPT ![s] = "failed"]
    /\ onErrorCalls' = onErrorCalls + 1
    /\ UNCHANGED <<client, fired, frames, stopped>>
    /\ UNCHANGED turnVars

\* the "close" event of socket s
HandleClose(s) ==
    /\ sockets[s] \in {"open", "closing", "failed"}
    /\ sockets' = [sockets EXCEPT ![s] = "closed"]
    /\ client' = handleClose(client)
    /\ UNCHANGED <<fired, onErrorCalls, frames, stopped>>
    /\ UNCHANGED turnVars

\* a reconnect timeout fires
ReconnectTimerFire ==
    /\ client.pendingTimeouts > 0
    /\ Len(sockets) < MaxConnects
    /\ client' = reconnectTimerFired(client, Len(sockets) + 1)
    /\ sockets' = Append(sockets, IF client.urlAccepted THEN "connecting" ELSE "threw")
    /\ onErrorCalls' = IF client.urlAccepted THEN onErrorCalls ELSE onErrorCalls + 1
    /\ UNCHANGED <<fired, frames, stopped>>
    /\ UNCHANGED turnVars

\* the "message" event of socket s
HandleRawMessage(s, f) ==
    /\ sockets[s] = "open"
    /\ frames < MaxFrames
    /\ frames' = frames + 1
    /\ client' = handleRawMessage(client, f)
    /\ fired' = IF rawMessageCallback(client, f) \in {"onPrompt", "onCancel"}
                THEN [fired EXCEPT ![f.msg_id] = @ + 1] ELSE fired
    /\ onErrorCalls' = IF rawMessageCallback(client, f) = "onError"
                       THEN onErrorCalls + 1 ELSE onErrorCalls
    /\ UNCHANGED <<sockets, stopped>>
    /\ UNCHANGED turnVars

\* the msg_id cleanup interval fires
MsgIdCleanupTick ==
    /\ client.msgIdCleanupTimer
    /\ client' = msgIdCleanupTick(client)
    /\ UNCHANGED <<sockets, fired, onErrorCalls, frames, stopped>>
    /\ UNCHANGED turnVars

\* a session.prompt reaches handlePrompt
HandlePrompt(sid, pid, throws) ==
    /\ Len(turns) < MaxTurns
    /\ LET r == handlePromptStart(client, sockets, turns, activeTurns, outbox,
                                  sid, pid, InboundGuid, InboundUserId, throws)
       IN  /\ turns' = r.turns
           /\ activeTurns' = r.activeTurns
           /\ outbox' = r.outbox
    /\ UNCHANGED <<clientVars, cancels, events>>

\* a session.cancel reaches handleCancel
HandleCancel(sid, pid) ==
    /\ cancels < MaxCancels
    /\ cancels' = cancels + 1
    /\ LET r == handleCancel(client, sockets, turns, activeTurns, outbox, sid, pid)
       IN  /\ turns' = r.turns
           /\ activeTurns' = r.activeTurns
           /\ outbox' = r.outbox
    /\ UNCHANGED <<clientVars, events>>

\* the agent run of Turn r emits event e on the event bus
AgentEvent(r, e) ==
    /\ turns[r].pc = "awaiting"
    /\ events < MaxEvents
    /\ events' = events + 1
    /\ LET res == emitAgentEvent(client, sockets, turns, outbox, 1, r, e)
       IN  /\ turns' = res.turns
           /\ outbox' = res.outbox
    /\ UNCHANGED <<clientVars, activeTurns, cancels>>

\* the dispatch call of Turn t invokes its deliver callback
Deliver(t, kind, text) ==
    /\ turns[t].pc = "awaiting"
    /\ turns' = deliver(turns, t, kind, text)
    /\ UNCHANGED <<clientVars, activeTurns, outbox, cancels, events>>

\* the dispatch call of Turn t resolves
DispatchResolve(t) ==
    /\ turns[t].pc = "awaiting"
    /\ LET r == handlePromptResolved(client, sockets, turns, activeTurns, outbox, t)
       IN  /\ turns' = r.turns
           /\ activeTurns' = r.activeTurns
           /\ outbox' = r.outbox
    /\ UNCHANGED <<clientVars, cancels, events>>

\* the dispatch call of Turn t rejects
DispatchReject(t) ==
    /\ turns[t].pc = "awaiting"
    /\ LET r == handlePromptRejected(client, sockets, turns, activeTurns, outbox, t)
       IN  /\ turns' = r.turns
           /\ activeTurns' = r.activeTurns
           /\ outbox' = r.outbox
    /\ UNCHANGED <<clientVars, cancels, events>>

\* the connection lifecycle: owner calls, transport events, reconnect timer
NextConn ==
    \/ Start
    \/ Stop
    \/ \E s \in 1..Len(sockets) : HandleOpen(s)
    \/ \E s \in 1..Len(sockets) : HandleError(s)
    \/ \E s \in 1..Len(sockets) : HandleClose(s)
    \/ ReconnectTimerFire

SpecConn == Init /\ [][NextConn]_vars

\* inbound dispatch and the dedup cache, on a client with the default
\* maxReconnectAttempts and a url the WebSocket constructor accepts
NextDedup ==
    \/ Start
    \/ Stop
    \/ \E s \in 1..Len(sockets) : HandleOpen(s)
    \/ \E s \in 1..Len(sockets), f \in Frames : HandleRawMessage(s, f)
    \/ MsgIdCleanupTick

InitDedup == Init /\ client = newClient(0, TRUE)

SpecDedup == InitDedup /\ [][NextDedup]_vars

\* the Turn engine on a client that is connected
NextTurn ==
    \/ \E sid \in SessionIds, pid \in PromptIds, throws \in BOOLEAN :
           HandlePrompt(sid, pid, throws)
    \/ \E sid \in SessionIds, pid \in PromptIds : HandleCancel(sid, pid)
    \/ \E r \in 1..Len(turns), e \in AgentEvents : AgentEvent(r, e)
    \/ \E t \in 1..Len(turns), kind \in DeliverKinds, text \in DeliverTexts :
           Deliver(t, kind, text)
    \/ \E t \in 1..Len(turns) : DispatchResolve(t)
    \/ \E t \in 1..Len(turns) : DispatchReject(t)

\* the client after start() and the open event of its socket
connectedClient == handleOpen(start(newClient(0, TRUE), 1))

InitTurn ==
    /\ client = connectedClient
    /\ sockets = <<"open">>
    /\ stopped = FALSE
    /\ fired = [id \in MsgIds |-> 0]
    /\ onErrorCalls = 0
    /\ frames = 0
    /\ turns = <<>>
    /\ activeTurns = [p \in PromptIds |-> NoTurn]
    /\ outbox = <<>>
    /\ cancels = 0
    /\ events = 0

SpecTurn == InitTurn /\ [][NextTurn]_vars

\* a session.prompt whose prompt_id no earlier Turn had reaches handlePrompt
HandleFreshPrompt(sid, pid, throws) ==
    /\ \A t \in 1..Len(turns) : turns[t].promptId # pid
    /\ HandlePrompt(sid, pid, throws)

\* the Turn engine when the server gives every Turn a prompt_id of its own
NextTurnUnique ==
    \/ \E sid \in SessionIds, pid \in PromptIds, throws \in BOOLEAN :
           HandleFreshPrompt(sid, pid, throws)
    \/ \E sid \in SessionIds, pid \in PromptIds : HandleCancel(sid, pid)
    \/ \E r \in 1..Len(turns), e \in AgentEvents : AgentEvent(r, e)
    \/ \E t \in 1..Len(turns), kind \in DeliverKinds, text \in DeliverTexts :
           Deliver(t, kind, text)
    \/ \E t \in 1..Len(turns) : DispatchResolve(t)
    \/ \E t \in 1..Len(turns) : DispatchReject(t)

SpecTurnUnique == InitTurn /\ [][NextTurnUnique]_vars

\* the agent run of Turn r emits tool event e on the event bus
ToolEvent(r, e) ==
    /\ turns[r].pc = "awaiting"
    /\ events < MaxToolEvents
    /\ events' = events + 1
    /\ LET res == emitAgentEvent(client, sockets, turns, outbox, 1, r, e)
       IN  /\ turns' = res.turns
           /\ outbox' = res.outbox
    /\ UNCHANGED <<clientVars, activeTurns, cancels>>

\* the tool-call stream of the Turns of a connected client
NextTool ==
    \/ \E sid \in SessionIds, pid \in PromptIds : HandlePrompt(sid, pid, FALSE)
    \/ \E r \in 1..Len(turns), e \in ToolEvents : ToolEvent(r, e)
    \/ \E t \in 1..Len(turns) : DispatchResolve(t)

SpecTool == InitTurn /\ [][NextTool]_vars

\* the agent run of Turn r emits an assistant event e that carries only a
\* cumulative text
TextEvent(r, e) ==
    /\ turns[r].pc = "awaiting"
    /\ events < MaxTextEvents
    /\ events' = events + 1
    /\ LET res == emitAgentEvent(client, sockets, turns, outbox, 1, r, e)
       IN  /\ turns' = res.turns
           /\ outbox' = res.outbox
    /\ UNCHANGED <<clientVars, activeTurns, cancels>>

\* the text stream of the Turns of a connected client
NextText ==
    \/ \E sid \in SessionIds, pid \in PromptIds : HandlePrompt(sid, pid, FALSE)
    \/ \E r \in 1..Len(turns), e \in CumulativeEvents : TextEvent(r, e)
    \/ \E t \in 1..Len(turns) : DispatchResolve(t)

SpecText == InitTurn /\ [][NextText]_vars

\* the session ids of the inbound envelopes when two sessions are in use
CrossSessionIds == {"s1", "s2"}

\* the Turn engine of a connected client that serves two sessions
NextSession ==
    \/ \E sid \in CrossSessionIds, pid \in PromptIds : HandlePrompt(sid, pid, FALSE)
    \/ \E sid \in CrossSessionIds, pid \in PromptIds : HandleCancel(sid, pid)
    \/ \E t \in 1..Len(turns) : DispatchResolve(t)

SpecSession == InitTurn /\ [][NextSession]_vars

\* a session.prompt arrives on the open socket of the client
PromptArrives(sid, pid) ==
    /\ client.ws # NoSocket
    /\ sockets[client.ws] = "open"
    /\ HandlePrompt(sid, pid, FALSE)

\* the Turn engine over a connection that is lost and re-established
NextOrphan ==
    \/ \E sid \in SessionIds, pid \in PromptIds : PromptArrives(sid, pid)
    \/ \E r \in 1..Len(turns), e \in AgentEvents : AgentEvent(r, e)
    \/ \E t \in 1..Len(turns) : DispatchResolve(t)
    \/ \E s \in 1..Len(sockets) : HandleOpen(s)
    \/ \E s \in 1..Len(sockets) : HandleClose(s)
    \/ ReconnectTimerFire

SpecOrphan == InitTurn /\ [][NextOrphan]_vars

\* the connect() calls still to come without a further start(): one per
\* pending timeout and one per reconnect that can still be armed
connectsToCome ==
    client.pendingTimeouts
    + (IF client.maxReconnectAttempts > client.reconnectAttempts
       THEN client.maxReconnectAttempts - client.reconnectAttempts ELSE 0)

\* start(), called only while the run has room for the connect() calls that
\* follow from it
StartInBudget ==
    /\ Len(sockets) + connectsToCome < MaxConnects
    /\ Start

\* socket s fails: its error event, then its close event
SocketFails(s) ==
    /\ s <= Len(sockets)
    /\ (HandleError(s) \/ HandleClose(s))

\* the lifecycle of a client with a reconnect ceiling whose connect attempts
\* all fail: no socket ever opens
NextExhaust ==
    \/ StartInBudget
    \/ Stop
    \/ \E s \in 1..Len(sockets) : SocketFails(s)
    \/ ReconnectTimerFire

InitExhaust == Init /\ client.maxReconnectAttempts > 0

\* every socket eventually fails and every pending timeout eventually fires
SpecExhaust ==
    /\ InitExhaust
    /\ [][NextExhaust]_vars
    /\ WF_vars(ReconnectTimerFire)
    /\ \A s \in 1..MaxConnects : WF_vars(SocketFails(s))

\* the lifecycle of a client that reconnects without limit and is never stopped
NextReconnect ==
    \/ Start
    \/ \E s \in 1..Len(sockets) : HandleOpen(s)
    \/ \E s \in 1..Len(sockets) : HandleError(s)
    \/ \E s \in 1..Len(sockets) : HandleClose(s)
    \/ ReconnectTimerFire

InitReconnect == Init /\ client.maxReconnectAttempts = 0

\* every pending timeout eventually fires
SpecReconnect ==
    InitReconnect /\ [][NextReconnect]_vars /\ WF_vars(ReconnectTimerFire)

\* the agent run of Turn r emits tool event e, of any phase
PhaseEvent(r, e) ==
    /\ turns[r].pc = "awaiting"
    /\ events < MaxPhaseEvents
    /\ events' = events + 1
    /\ LET res == emitAgentEvent(client, sockets, turns, outbox, 1, r, e)
       IN  /\ turns' = res.turns
           /\ outbox' = res.outbox
    /\ UNCHANGED <<clientVars, activeTurns, cancels>>

\* the tool phases of the Turns of a connected client, with cancels
NextPhase ==
    \/ \E sid \in SessionIds, pid \in PromptIds : HandleFreshPrompt(sid, pid, FALSE)
    \/ \E sid \in SessionIds, pid \in PromptIds : HandleCancel(sid, pid)
    \/ \E r \in 1..Len(turns), e \in PhaseEvents : PhaseEvent(r, e)
    \/ \E t \in 1..Len(turns) : DispatchResolve(t)

SpecPhase == InitTurn /\ [][NextPhase]_vars

\* the texts of the deliver calls when a dispatch delivers more than one reply
ReplyTexts == {"", "first", "second"}

\* the dispatch call of Turn t invokes its deliver callback; the call is
\* recorded in lastFinalCall when it is of kind "final" and carries text
DeliverReply(t, kind, text) ==
    /\ turns[t].pc = "awaiting"
    /\ turns' = [deliver(turns, t, kind, text) EXCEPT
                    ![t].lastFinalCall = IF kind = "final" /\ text # "" THEN text ELSE @]
    /\ UNCHANGED <<clientVars, activeTurns, outbox, cancels, events>>

\* the replies of the Turns of a connected client, with cancels and failures
NextReply ==
    \/ \E sid \in SessionIds, pid \in PromptIds : HandleFreshPrompt(sid, pid, FALSE)
    \/ \E sid \in SessionIds, pid \in PromptIds : HandleCancel(sid, pid)
    \/ \E t \in 1..Len(turns), kind \in DeliverKinds, text \in ReplyTexts :
           DeliverReply(t, kind, text)
    \/ \E t \in 1..Len(turns) : DispatchResolve(t)
    \/ \E t \in 1..Len(turns) : DispatchReject(t)

SpecReply == InitTurn /\ [][NextReply]_vars

\* the frames the server replays: session.prompt envelopes
ReplayFrames == {f \in Frames : ~f.bad /\ f.method = "session.prompt"}

\* inbound frames over a connection that is lost and re-established
NextReplay ==
    \/ Start
    \/ Stop
    \/ \E s \in 1..Len(sockets) : HandleOpen(s)
    \/ \E s \in 1..Len(sockets) : HandleClose(s)
    \/ ReconnectTimerFire
    \/ \E s \in 1..Len(sockets), f \in ReplayFrames : HandleRawMessage(s, f)

SpecReplay == InitDedup /\ [][NextReplay]_vars

\* outbound sends over the connection lifecycle: handleCancel for a prompt_id
\* that has no Turn sends one promptResponse through sendEnvelope
NextSend ==
    \/ Start
    \/ Stop
    \/ \E s \in 1..Len(sockets) : HandleOpen(s)
    \/ \E s \in 1..Len(sockets) : HandleClose(s)
    \/ ReconnectTimerFire
    \/ \E sid \in SessionIds, pid \in PromptIds : HandleCancel(sid, pid)

SpecSend == InitDedup /\ [][NextSend]_vars


(***************************************************************************)
(* Claims about the Turn engine (SpecTurn)                                 *)
(***************************************************************************)
StopReasons == {"end_turn", "cancelled", "error", "refusal"}

\* the sendPromptResponse calls made for Turn object t, in order
ResponsesOf(t) ==
    SelectSeq(outbox, LAMBDA m : m.method = "session.promptResponse" /\ m.turn = t)

\* C1: for every Turn created by handlePrompt, at most one
\* session.promptResponse is ever produced
C1_AtMostOneResponse ==
    \A t \in 1..Len(turns) : Len(ResponsesOf(t)) <= 1

\* the dispatch call of Turn t settles
DispatchSettles(t) == t <= Len(turns) /\ (DispatchResolve(t) \/ DispatchReject(t))

\* SpecTurn where every dispatch call eventually resolves or rejects
SpecTurnFair == SpecTurn /\ \A t \in 1..MaxTurns : WF_vars(DispatchSettles(t))

HasTerminalResponse(t) ==
    \E i \in 1..Len(outbox) :
        /\ outbox[i].method = "session.promptResponse"
        /\ outbox[i].turn = t
        /\ outbox[i].prompt_id = turns[t].promptId
        /\ outbox[i].kind \in StopReasons

\* C2: every accepted session.prompt eventually leads to at least one
\* sendPromptResponse call with a valid stop_reason once its dispatch call
\* settles or a cancel for it is processed, and handlePrompt never ends
\* without one
C2_EventuallyResponded ==
    /\ \A t \in 1..MaxTurns : [](Len(turns) >= t => <>HasTerminalResponse(t))
    /\ [](\A t \in 1..Len(turns) :
              (turns[t].pc = "done" \/ turns[t].cancelled) => HasTerminalResponse(t))

\* C2 witness: a Turn whose dispatch call resolved has been answered
C2_Witness ==
    \E t \in 1..Len(turns) :
        /\ turns[t].pc = "done"
        /\ ~turns[t].cancelled
        /\ \E i \in 1..Len(outbox) : outbox[i].turn = t /\ outbox[i].kind = "end_turn"

\* C3: once handleCancel has been processed for a Turn whose dispatch call
\* is pending, every terminal response produced for that Turn has stop_reason
\* "cancelled" and carries no content
C3_CancelledResponsesOnly ==
    \A t \in 1..Len(turns) :
        turns[t].cancelled =>
            \A i \in 1..Len(ResponsesOf(t)) :
                /\ ResponsesOf(t)[i].kind = "cancelled"
                /\ ResponsesOf(t)[i].content = <<>>

\* C4: handleCancel for a prompt_id without a registry entry sends exactly one
\* promptResponse with stop_reason "cancelled" and leaves the registry, the
\* Turns and the connection unchanged
C4_UnknownCancel ==
    [][\A sid \in SessionIds, pid \in PromptIds :
          (HandleCancel(sid, pid) /\ activeTurns[pid] = NoTurn) =>
              /\ Len(outbox') = Len(outbox) + 1
              /\ SubSeq(outbox', 1, Len(outbox)) = outbox
              /\ outbox'[Len(outbox')].method = "session.promptResponse"
              /\ outbox'[Len(outbox')].kind = "cancelled"
              /\ outbox'[Len(outbox')].prompt_id = pid
              /\ outbox'[Len(outbox')].session_id = sid
              /\ activeTurns' = activeTurns
              /\ turns' = turns
              /\ client' = client
              /\ sockets' = sockets]_vars

\* C4 witness: a cancelled response was sent for a prompt_id that had no
\* registry entry, here one whose Turn had already completed
C4_Witness ==
    \E i \in 1..Len(outbox) :
        /\ outbox[i].turn = NoTurn
        /\ outbox[i].kind = "cancelled"
        /\ \E t \in 1..Len(turns) :
               turns[t].promptId = outbox[i].prompt_id /\ turns[t].pc = "done"

\* C6: a session.prompt whose (session_id, prompt_id) matches a registered
\* Turn is ignored: no second Turn, and the registry entry is unchanged
C6_DuplicatePromptIgnored ==
    [][\A sid \in SessionIds, pid \in PromptIds, throws \in BOOLEAN :
          ( /\ HandlePrompt(sid, pid, throws)
            /\ activeTurns[pid] # NoTurn
            /\ turns[activeTurns[pid]].sessionId = sid ) =>
              /\ turns' = turns
              /\ activeTurns' = activeTurns]_vars

(***************************************************************************)
(* Claims about inbound dispatch and the dedup cache (SpecDedup)           *)
(***************************************************************************)
\* C5 as stated: the onPrompt/onCancel handler fires at most once per msg_id
\* over any sequence of inbound frames, however often the id is repeated
C5_OncePerMsgId ==
    \A id \in MsgIds : fired[id] <= 1

\* C5 as amended: a frame fires onPrompt/onCancel exactly once, and only if
\* its msg_id is not in processedMsgIds, where the frame then records it; a
\* frame whose msg_id is in the cache fires nothing
C5_OncePerCachedMsgId ==
    [][\A id \in MsgIds :
          /\ fired'[id] # fired[id] =>
                /\ fired'[id] = fired[id] + 1
                /\ ~InSeq(id, client.processedMsgIds)
                /\ InSeq(id, client'.processedMsgIds)
          /\ \A s \in 1..Len(sockets), f \in Frames :
                ( /\ HandleRawMessage(s, f)
                  /\ ~f.bad
                  /\ f.msg_id = id
                  /\ f.method \in {"session.prompt", "session.cancel"}
                  /\ ~InSeq(id, client.processedMsgIds) ) =>
                    fired'[id] = fired[id] + 1]_vars

\* C5 witness: two frames arrived on the only socket, both with the same
\* msg_id, and its handler has fired once
C5_Witness ==
    \E id \in MsgIds :
        /\ frames = 2
        /\ onErrorCalls = 0
        /\ sockets = <<"open">>
        /\ client.processedMsgIds = <<id>>
        /\ fired[id] = 1

\* C7: the dedup cache never holds more than MAX_MSG_ID_CACHE ids
C7_CacheWithinCeiling ==
    Len(client.processedMsgIds) <= MAX_MSG_ID_CACHE

\* C8: a sweep that finds more than MAX_MSG_ID_CACHE ids leaves exactly the
\* MAX_MSG_ID_CACHE / 2 most recently inserted ones, in their order
C8_SweepKeepsNewestHalf ==
    [][(MsgIdCleanupTick /\ Len(client.processedMsgIds) > MAX_MSG_ID_CACHE) =>
          LET old == client.processedMsgIds
              new == client'.processedMsgIds
              keep == MAX_MSG_ID_CACHE \div 2
          IN  /\ Len(new) = keep
              /\ \A k \in 1..keep : new[k] = old[Len(old) - keep + k]
              /\ \A i \in 1..(Len(old) - keep) : ~InSeq(old[i], new)]_vars

\* C8 witness: more than MAX_MSG_ID_CACHE distinct ids arrived on the only
\* socket, the client was never stopped, and the cache holds half the ceiling
C8_Witness ==
    /\ sockets = <<"open">>
    /\ Cardinality({id \in MsgIds : fired[id] > 0}) > MAX_MSG_ID_CACHE
    /\ Len(client.processedMsgIds) = MAX_MSG_ID_CACHE \div 2

(***************************************************************************)
(* Claims about the connection lifecycle (SpecConn)                        *)
(***************************************************************************)
\* C9: after stop() the state stays Disconnected, and no connect attempt is
\* made, until start() is called again
C9_StoppedStaysDisconnected ==
    /\ [](stopped => client.state = "disconnected")
    /\ [][stopped /\ stopped' => Len(sockets') = Len(sockets)]_vars

\* C10: with maxReconnectAttempts = M > 0, reconnectAttempts never exceeds M
\* and a close handled when reconnectAttempts has reached M leaves the state
\* Disconnected with no reconnect timer armed; with M = 0 a close handled in
\* a state other than Disconnected always arms a reconnect
C10_ReconnectCeiling ==
    /\ [](client.maxReconnectAttempts > 0 =>
              client.reconnectAttempts <= client.maxReconnectAttempts)
    /\ [][\A s \in 1..Len(sockets) :
            (HandleClose(s) /\ client.state # "disconnected") =>
              IF client.maxReconnectAttempts = 0
              THEN client'.state = "reconnecting" /\ client'.reconnectTimer
              ELSE client.reconnectAttempts >= client.maxReconnectAttempts =>
                      /\ client'.state = "disconnected"
                      /\ ~client'.reconnectTimer
                      /\ client'.pendingTimeouts = 0]_vars

\* C11 as stated: a close event or an error event handled while the state is
\* Connected moves the state to Reconnecting and arms a reconnect
C11_CloseOrErrorReconnects ==
    [][\A s \in 1..Len(sockets) :
          ((HandleClose(s) \/ HandleError(s)) /\ client.state = "connected") =>
              /\ client'.state = "reconnecting"
              /\ client'.reconnectTimer]_vars

\* C11 as amended: a close event handled while the state is Connected moves
\* the state to Reconnecting and arms a reconnect timer; an error event
\* changes nothing of the client, and the close event of a failed socket
\* handled while Connected is what moves the state to Reconnecting
C11_CloseReconnects ==
    [][\A s \in 1..Len(sockets) :
          /\ (HandleClose(s) /\ client.state = "connected") =>
                /\ client'.state = "reconnecting"
                /\ client'.reconnectTimer
                /\ client'.pendingTimeouts = client.pendingTimeouts + 1
                /\ client'.reconnectAttempts = 1
          /\ HandleError(s) =>
                /\ client' = client
                /\ sockets'[s] = "failed"]_vars

\* C11 witness: the error event of the only socket was handled while
\* Connected, and the state is still Connected until its close event comes
C11_Witness ==
    /\ sockets = <<"failed">>
    /\ client.state = "connected"
    /\ client.heartbeatTimer
    /\ onErrorCalls = 1

\* the states a step passes through: a step that calls connect() passes
\* through Connecting, a step that gives up at the attempt ceiling passes
\* through Reconnecting
gaveUp ==
    /\ client'.state = "disconnected"
    /\ client.maxReconnectAttempts > 0
    /\ client.reconnectAttempts >= client.maxReconnectAttempts
    /\ client'.reconnectAttempts = client.reconnectAttempts
statePath ==
    <<client.state>>
    \o (IF Len(sockets') > Len(sockets) THEN <<"connecting">> ELSE <<>>)
    \o (IF gaveUp /\ ~Stop THEN <<"reconnecting">> ELSE <<>>)
    \o <<client'.state>>

\* the transitions the lifecycle lists, apart from any -> Disconnected by stop()
ListedTransitions ==
    { <<"disconnected", "connecting">>, <<"connecting", "connected">>,
      <<"connecting", "reconnecting">>, <<"connected", "reconnecting">>,
      <<"reconnecting", "connecting">>, <<"reconnecting", "disconnected">> }

\* C12: every change of the connection state is one of the listed transitions
C12_OnlyListedTransitions ==
    [][\A k \in 1..(Len(statePath) - 1) :
          \/ statePath[k] = statePath[k + 1]
          \/ <<statePath[k], statePath[k + 1]>> \in ListedTransitions
          \/ Stop /\ statePath[k + 1] = "disconnected"]_vars

\* C13: the heartbeat timer is armed exactly when the state is Connected
C13_HeartbeatIffConnected ==
    client.heartbeatTimer <=> client.state = "connected"

C15_AttemptsFrame ==
    [][/\ client'.reconnectAttempts # client.reconnectAttempts =>
             \/ /\ client'.reconnectAttempts = client.reconnectAttempts + 1
                /\ client'.state = "reconnecting"
                /\ client'.reconnectTimer
                /\ \/ \E s \in 1..Len(sockets) : HandleClose(s)
                   \/ Len(sockets') > Len(sockets) /\ ~client.urlAccepted
             \/ /\ client'.reconnectAttempts = 0
                /\ \E s \in 1..Len(sockets) : HandleOpen(s)
       /\ (\E s \in 1..Len(sockets) : HandleOpen(s)) => client'.reconnectAttempts = 0
       /\ ( /\ client'.state = "reconnecting"
            /\ \/ \E s \in 1..Len(sockets) : HandleClose(s)
               \/ Len(sockets') > Len(sockets) /\ ~client.urlAccepted ) =>
             client'.reconnectAttempts = client.reconnectAttempts + 1
       /\ (Stop \/ \E s \in 1..Len(sockets) : HandleError(s)) =>
             client'.reconnectAttempts = client.reconnectAttempts]_vars

\* C15 witness: a first connection closed, which armed a reconnect, and the
\* open event of the second connection has reset reconnectAttempts
C15_Witness ==
    /\ sockets = <<"closed", "open">>
    /\ onErrorCalls = 0
    /\ client.state = "connected"
    /\ client.reconnectAttempts = 0
    /\ client.delay > 0

(***************************************************************************)
(* Claims about outbound sends                                             *)
(***************************************************************************)
\* C16: sendEnvelope writes to the transport only if the state is Connected
\* at the call; otherwise the envelope is discarded: the call changes nothing
\* of the client or the sockets, and an envelope once discarded is never
\* transmitted later
C16_SendOnlyWhenConnected ==
    [][/\ Len(outbox') > Len(outbox) =>
             /\ outbox'[Len(outbox')].sent => client.state = "connected"
             /\ client' = client
             /\ sockets' = sockets
       /\ Len(outbox') >= Len(outbox)
       /\ \A i \in 1..Len(outbox) : outbox'[i] = outbox[i]]_vars

\* C16 witness: an envelope was discarded, the connection came up afterwards
\* and a later envelope was written, the first one still not transmitted
C16_Witness ==
    /\ Len(outbox) = 2
    /\ ~outbox[1].sent
    /\ outbox[2].sent
    /\ client.state = "connected"

\* outbox[i] is a session.update
IsUpdate(i) == outbox[i].method = "session.update"
\* outbox[i] is a session.promptResponse that answers Turn object t
IsResponseOf(i, t) ==
    outbox[i].method = "session.promptResponse" /\ outbox[i].turn = t

\* C17: once handleCancel has been processed for a Turn (it answered
\* "cancelled" for it), no session.update is sent for that Turn
C17_NoUpdateAfterCancel ==
    \A t \in 1..Len(turns) :
        \A i \in 1..Len(outbox), j \in 1..Len(outbox) :
            (i < j /\ IsResponseOf(i, t) /\ outbox[i].kind = "cancelled" /\ IsUpdate(j))
                => outbox[j].turn # t

\* C17 witness: the only Turn was cancelled while its dispatch was pending,
\* its run emitted an event afterwards, and nothing but the response was sent
C17_Witness ==
    /\ Len(turns) = 1
    /\ turns[1].cancelled
    /\ events = 1
    /\ Len(outbox) = 1
    /\ IsResponseOf(1, 1)

\* C18: no session.update of a Turn is sent after a session.promptResponse of
\* that Turn
C18_ResponseIsLast ==
    \A t \in 1..Len(turns) :
        \A i \in 1..Len(outbox), j \in 1..Len(outbox) :
            (i < j /\ IsResponseOf(i, t) /\ IsUpdate(j)) => outbox[j].turn # t

\* C19: the unsubscribe function of a Turn is invoked at most once, and a
\* Turn that subscribed has been unsubscribed when its handlePrompt has ended
C19_UnsubscribedOnce ==
    \A t \in 1..Len(turns) :
        /\ turns[t].unsubscribeCalls <= 1
        /\ turns[t].pc = "done" => ~turns[t].subscribed

\* outbox[i] is a tool_call or tool_call_update
IsToolUpdate(i) ==
    IsUpdate(i) /\ outbox[i].kind \in {"tool_call", "tool_call_update"}

\* C20: the updates a Turn sends for one tool invocation of a run carry the
\* same tool_call_id, and those for distinct invocations carry distinct ids
C20_StableToolCallId ==
    \A i \in 1..Len(outbox), j \in 1..Len(outbox) :
        ( /\ IsToolUpdate(i) /\ IsToolUpdate(j)
          /\ outbox[i].turn = outbox[j].turn
          /\ outbox[i].run = outbox[j].run ) =>
            (outbox[i].call = outbox[j].call
                <=> outbox[i].tool_call_id = outbox[j].tool_call_id)

(***************************************************************************)
(* Claims about the text stream (SpecText)                                 *)
(***************************************************************************)
\* the message_chunk updates sent by Turn object t, in order
ChunksOf(box, t) ==
    SelectSeq(box, LAMBDA m : m.method = "session.update"
                               /\ m.kind = "message_chunk" /\ m.turn = t)

\* the concatenation of the texts of a sequence of envelopes
RECURSIVE ConcatContent(_)
ConcatContent(s) ==
    IF s = <<>> THEN <<>> ELSE Head(s).content \o ConcatContent(Tail(s))

\* C21: an assistant event that carries only a cumulative text extending what
\* the Turn has emitted makes the Turn send exactly the suffix beyond it (and
\* nothing when the suffix is empty); while every cumulative text extends the
\* previous one, the concatenation of the message_chunk texts of the Turn is
\* the last cumulative text
C21_CumulativeSuffix ==
    /\ [][\A r \in 1..Len(turns), e \in CumulativeEvents :
             TextEvent(r, e) =>
               \A t \in 1..Len(turns) :
                 ( /\ turns[t].subscribed
                   /\ turns[t].extending
                   /\ IsPrefix(turns[t].lastEmittedText, e.text) ) =>
                     LET old == ChunksOf(outbox, t)
                         new == ChunksOf(outbox', t)
                         suffix == SubSeq(e.text, Len(turns[t].lastEmittedText) + 1,
                                          Len(e.text))
                     IN  /\ SubSeq(new, 1, Len(old)) = old
                         /\ Len(new) = Len(old) + (IF suffix = <<>> THEN 0 ELSE 1)
                         /\ suffix # <<>> => new[Len(new)].content = suffix
                         /\ ConcatContent(new) = e.text]_vars
    /\ [](\A t \in 1..Len(turns) :
             turns[t].extending =>
                 ConcatContent(ChunksOf(outbox, t)) = turns[t].lastEmittedText)

\* C21 witness: the only Turn received the cumulative texts "H", "H" and
\* "Hi" and sent the chunks "H" and "i"
C21_Witness ==
    /\ Len(turns) = 1
    /\ events = 3
    /\ turns[1].extending
    /\ turns[1].lastEmittedText = <<"H", "i">>
    /\ Len(outbox) = 2
    /\ outbox[1].content = <<"H">>
    /\ outbox[2].content = <<"i">>

(***************************************************************************)
(* Claims about dispatch failures                                          *)
(***************************************************************************)
\* C22: when the dispatch call of a Turn that was not cancelled rejects,
\* exactly one terminal response, with stop_reason "error" and an error
\* message, is sent for it, the Turn leaves the registry and its subscription
\* is released, and the connection and every other Turn are unchanged
C22_DispatchFailure ==
    [][\A t \in 1..Len(turns) :
          (DispatchReject(t) /\ ~turns[t].cancelled) =>
              /\ Len(outbox') = Len(outbox) + 1
              /\ SubSeq(outbox', 1, Len(outbox)) = outbox
              /\ outbox'[Len(outbox')].method = "session.promptResponse"
              /\ outbox'[Len(outbox')].kind = "error"
              /\ outbox'[Len(outbox')].error
              /\ outbox'[Len(outbox')].turn = t
              /\ outbox'[Len(outbox')].prompt_id = turns[t].promptId
              /\ \A i \in 1..Len(outbox) :
                     ~(outbox[i].method = "session.promptResponse" /\ outbox[i].turn = t)
              /\ \A p \in PromptIds : activeTurns'[p] # t
              /\ ~turns'[t].subscribed
              /\ client' = client
              /\ sockets' = sockets
              /\ \A u \in 1..Len(turns) :
                     u # t => /\ turns'[u] = turns[u]
                              /\ \A p \in PromptIds :
                                     activeTurns[p] = u => activeTurns'[p] = u]_vars

(***************************************************************************)
(* Claims about frames that do not decode (SpecDedup)                      *)
(***************************************************************************)
\* the methods handleRawMessage dispatches
KnownMethods == {"session.prompt", "session.cancel"}

\* C23 as stated: a frame that is malformed JSON or carries an unrecognized
\* method is reported through onError, and fires no onPrompt/onCancel
C23_UndecodableReported ==
    [][\A s \in 1..Len(sockets), f \in Frames :
          (HandleRawMessage(s, f) /\ (f.bad \/ f.method \notin KnownMethods)) =>
              /\ onErrorCalls' = onErrorCalls + 1
              /\ fired' = fired]_vars

\* C23 as amended: a frame that is malformed JSON is reported through onError
\* once; a frame with an unrecognized method is dropped without a call of
\* onError; neither fires onPrompt/onCancel
C23_MalformedReported ==
    [][\A s \in 1..Len(sockets), f \in Frames :
          /\ (HandleRawMessage(s, f) /\ f.bad) =>
                /\ onErrorCalls' = onErrorCalls + 1
                /\ fired' = fired
          /\ (HandleRawMessage(s, f) /\ ~f.bad /\ f.method \notin KnownMethods) =>
                /\ onErrorCalls' = onErrorCalls
                /\ fired' = fired]_vars

\* C23 witness: a malformed frame and a frame with an unrecognized method
\* arrived on the only socket: one onError call, no handler fired
C23_Witness ==
    /\ sockets = <<"open">>
    /\ frames = 2
    /\ onErrorCalls = 1
    /\ Len(client.processedMsgIds) = 1
    /\ \A id \in MsgIds : fired[id] = 0

\* C24: handling a frame that is malformed or has an unrecognized method
\* changes neither the connection state nor the socket nor any timer; and a
\* valid session.prompt or session.cancel frame whose msg_id is not in the
\* cache is dispatched to its handler, whatever frames came before it
C24_UndecodableHarmless ==
    [][\A s \in 1..Len(sockets), f \in Frames :
          /\ (HandleRawMessage(s, f) /\ (f.bad \/ f.method \notin KnownMethods)) =>
                /\ client'.state = client.state
                /\ client'.ws = client.ws
                /\ client'.reconnectTimer = client.reconnectTimer
                /\ client'.pendingTimeouts = client.pendingTimeouts
                /\ client'.heartbeatTimer = client.heartbeatTimer
                /\ client'.reconnectAttempts = client.reconnectAttempts
                /\ sockets' = sockets
                /\ stopped' = stopped
          /\ ( /\ HandleRawMessage(s, f)
               /\ ~f.bad
               /\ f.method \in KnownMethods
               /\ ~InSeq(f.msg_id, client.processedMsgIds) ) =>
                 fired'[f.msg_id] = fired[f.msg_id] + 1]_vars

\* C24 witness: after a malformed frame and a frame with an unrecognized
\* method, a valid frame arrived on the same socket and fired its handler,
\* the connection still up
C24_Witness ==
    /\ sockets = <<"open">>
    /\ client.state = "connected"
    /\ frames = 3
    /\ onErrorCalls = 1
    /\ Len(client.processedMsgIds) = 2
    /\ fired[client.processedMsgIds[1]] = 0
    /\ fired[client.processedMsgIds[2]] = 1

(***************************************************************************)
(* Claims about the identity of Turns (SpecSession)                        *)
(***************************************************************************)
\* Turn object t is registered in reg
Registered(reg, t) == \E p \in PromptIds : reg[p] = t

\* C25: a Turn is identified by (session_id, prompt_id): a session.prompt
\* (S2, P) leaves a registered Turn (S1, P) registered, and a session.cancel
\* (S1, P) neither cancels nor removes a Turn of another session
C25_TurnKeyIsPair ==
    [][/\ \A sid \in CrossSessionIds, pid \in PromptIds :
             HandlePrompt(sid, pid, FALSE) =>
                 \A t \in 1..Len(turns) :
                     (Registered(activeTurns, t) /\ turns[t].sessionId # sid) =>
                         Registered(activeTurns', t)
       /\ \A sid \in CrossSessionIds, pid \in PromptIds :
             HandleCancel(sid, pid) =>
                 \A t \in 1..Len(turns) :
                     turns[t].sessionId # sid =>
                         /\ turns'[t] = turns[t]
                         /\ Registered(activeTurns, t) => Registered(activeTurns', t)]_vars

(***************************************************************************)
(* Claims about the envelopes sent in answer to inbound envelopes          *)
(***************************************************************************)
\* C26: every envelope a handler sends in answer to an inbound envelope
\* carries the guid and the user_id of that inbound envelope
C26_EchoesGuidAndUserId ==
    \A i \in 1..Len(outbox) :
        /\ outbox[i].guid = InboundGuid
        /\ outbox[i].user_id = InboundUserId

(***************************************************************************)
(* Claims about Turns over a lost connection (SpecOrphan)                  *)
(***************************************************************************)
\* C27: nothing is written to the transport for a Turn on a connection other
\* than the one its session.prompt arrived on: the Turns that were Active when
\* the connection was lost get no session.update and no
\* session.promptResponse after the connection is re-established
C27_OrphansAbandoned ==
    \A i \in 1..Len(outbox) :
        (outbox[i].sent /\ outbox[i].turn # NoTurn) =>
            outbox[i].via = turns[outbox[i].turn].socket

(***************************************************************************)
(* Claims about a client whose connect attempts all fail (SpecExhaust)     *)
(***************************************************************************)
\* the client is at rest: Disconnected, no timeout pending, no socket alive
AtRest ==
    /\ client.state = "disconnected"
    /\ client.pendingTimeouts = 0
    /\ \A s \in 1..Len(sockets) : sockets[s] \in {"closed", "threw"}

UpdatesOf(box, t) ==
    SelectSeq(box, LAMBDA m : m.method = "session.update" /\ m.turn = t)

\* the update_type and status the listener derives from the phase of a tool event
UpdateTypeOf(e) == IF e.phase = "start" THEN "tool_call" ELSE "tool_call_update"
StatusOf(e) == IF e.phase = "result" THEN "completed" ELSE "in_progress"

\* C29: the updates of a Turn are sent in the order in which their events
\* reached its listener: an event makes each subscribed Turn append exactly
\* its one update behind everything sent before, written to the transport in
\* that step, and no other step adds, removes or moves an update
C29_UpdatesInEventOrder ==
    [][/\ \A r \in 1..Len(turns), e \in ToolEvents :
             ToolEvent(r, e) =>
               /\ Len(outbox') >= Len(outbox)
               /\ SubSeq(outbox', 1, Len(outbox)) = outbox
               /\ \A t \in 1..Len(turns) :
                     LET old == UpdatesOf(outbox, t)
                         new == UpdatesOf(outbox', t)
                     IN  /\ SubSeq(new, 1, Len(old)) = old
                         /\ IF turns[t].subscribed
                            THEN /\ Len(new) = Len(old) + 1
                                 /\ new[Len(new)].call = e.call
                                 /\ new[Len(new)].run = r
                                 /\ new[Len(new)].kind = UpdateTypeOf(e)
                                 /\ new[Len(new)].status = StatusOf(e)
                                 /\ new[Len(new)].sent
                            ELSE new = old
       /\ ~(\E r \in 1..Len(turns), e \in ToolEvents : ToolEvent(r, e)) =>
             \A t \in 1..Len(turns') : UpdatesOf(outbox', t) = UpdatesOf(outbox, t)]_vars

\* C29 witness: the only Turn received the start, update and result events of
\* one tool invocation and sent their three updates in that order
C29_Witness ==
    /\ Len(turns) = 1
    /\ events = 3
    /\ Len(outbox) = 3
    /\ \A i \in 1..3 : outbox[i].call = 3 /\ outbox[i].turn = 1
    /\ outbox[1].kind = "tool_call"
    /\ outbox[2].kind = "tool_call_update" /\ outbox[2].status = "in_progress"
    /\ outbox[3].kind = "tool_call_update" /\ outbox[3].status = "completed"

(***************************************************************************)
(* Claims about the sockets of a client (SpecConn)                         *)
(***************************************************************************)
\* the sockets that are connecting or open
LiveSockets == {s \in 1..Len(sockets) : sockets[s] \in {"connecting", "open"}}

\* C30: at most one socket of the client is connecting or open at any time
C30_AtMostOneSocket ==
    Cardinality(LiveSockets) <= 1

(***************************************************************************)
(* Claims about the reconnect timer and the socket reference (SpecConn)    *)
(***************************************************************************)
\* C31: at most one reconnect timeout is pending at any time, and one is
\* pending only while the state is Reconnecting, so that none can fire after
\* stop() or while the state is Connecting or Connected
C31_SingleReconnectTimer ==
    /\ client.pendingTimeouts <= 1
    /\ client.pendingTimeouts > 0 => client.state = "reconnecting"
    /\ client.pendingTimeouts > 0 => ~stopped

\* C32: while the state is Connected the client holds a socket reference, and
\* the close event of a socket that is not the one the client holds neither
\* drops the reference nor schedules a reconnect
C32_ConnectedHoldsSocket ==
    /\ [](client.state = "connected" => client.ws # NoSocket)
    /\ [][\A s \in 1..Len(sockets) :
            (HandleClose(s) /\ client.ws # NoSocket /\ client.ws # s) =>
                /\ client'.ws = client.ws
                /\ client'.state = client.state
                /\ client'.pendingTimeouts = client.pendingTimeouts]_vars

(***************************************************************************)
(* Claims about concurrent Turns (SpecTurnUnique)                          *)
(***************************************************************************)
\* C33: an agent event of the run of one Turn is forwarded only as an update
\* of that Turn: no session.update carries the prompt_id of another Turn
C33_EventsStayInTheirTurn ==
    \A i \in 1..Len(outbox) :
        IsUpdate(i) =>
            /\ outbox[i].turn = outbox[i].run
            /\ outbox[i].prompt_id = turns[outbox[i].run].promptId

\* C34: after handleCancel has answered "cancelled" for a Turn, every later
\* terminal response of that Turn has stop_reason "cancelled"
C34_OnlyCancelledAfterCancel ==
    \A t \in 1..Len(turns) :
        \A i \in 1..Len(outbox), j \in 1..Len(outbox) :
            ( /\ i < j
              /\ IsResponseOf(i, t) /\ outbox[i].kind = "cancelled"
              /\ IsResponseOf(j, t) ) =>
                outbox[j].kind = "cancelled"

(***************************************************************************)
(* Claims about the registry (SpecTurn)                                    *)
(***************************************************************************)
\* C35: between handler calls the registry holds exactly the Turns whose
\* dispatch call is pending and that were not cancelled
C35_RegistryIsPendingTurns ==
    \A t \in 1..Len(turns) :
        Registered(activeTurns, t) <=> (turns[t].pc = "awaiting" /\ ~turns[t].cancelled)

(***************************************************************************)
(* Claims about unlimited reconnection (SpecReconnect)                     *)
(***************************************************************************)
\* C36: with maxReconnectAttempts = 0 and no stop(), every close event arms a
\* reconnect timeout, a pending timeout is eventually followed by a new
\* connect attempt (while the run has room for one), and an open event
\* leaves the state Connected
C36_ReconnectsUntilOpen ==
    /\ [][\A s \in 1..Len(sockets) :
            /\ HandleClose(s) =>
                  /\ client'.state = "reconnecting"
                  /\ client'.reconnectTimer
                  /\ client'.pendingTimeouts = client.pendingTimeouts + 1
            /\ HandleOpen(s) => client'.state = "connected"]_vars
    /\ [][ReconnectTimerFire =>
            /\ Len(sockets') = Len(sockets) + 1
            /\ client.urlAccepted =>
                  /\ client'.state = "connecting"
                  /\ client'.ws = Len(sockets')
                  /\ sockets'[Len(sockets')] = "connecting"]_vars
    /\ \A n \in 0..(MaxConnects - 1) :
           [](client.pendingTimeouts > 0 /\ Len(sockets) = n => <>(Len(sockets) > n))

\* C36 witness: the first connection closed, the timeout fired, and the
\* second connection is open
C36_Witness ==
    /\ client.maxReconnectAttempts = 0
    /\ sockets = <<"closed", "open">>
    /\ client.state = "connected"
    /\ client.ws = 2
    /\ client.pendingTimeouts = 0

(***************************************************************************)
(* Claims about the phases of tool events (SpecPhase)                      *)
(***************************************************************************)
\* C37: for a Turn that is not cancelled, a tool event of phase start emits
\* one tool_call update with status in_progress, phase update one
\* tool_call_update with status in_progress, phase result one
\* tool_call_update with status failed if the error flag is set and completed
\* otherwise, and any other phase emits nothing; a cancelled Turn emits nothing
C37_ToolPhaseUpdates ==
    [][\A r \in 1..Len(turns), e \in PhaseEvents :
          PhaseEvent(r, e) =>
            \A t \in 1..Len(turns) :
              LET old == UpdatesOf(outbox, t)
                  new == UpdatesOf(outbox', t)
                  last == new[Len(new)]
              IN  IF turns[t].subscribed /\ ~turns[t].cancelled
                     /\ e.phase \in {"start", "update", "result"}
                  THEN /\ Len(new) = Len(old) + 1
                       /\ SubSeq(new, 1, Len(old)) = old
                       /\ e.phase = "start" =>
                             last.kind = "tool_call" /\ last.status = "in_progress"
                       /\ e.phase = "update" =>
                             last.kind = "tool_call_update" /\ last.status = "in_progress"
                       /\ e.phase = "result" =>
                             /\ last.kind = "tool_call_update"
                             /\ last.status = (IF e.isError THEN "failed" ELSE "completed")
                  ELSE new = old]_vars

\* C37 witness: the only Turn received a start event and a result event with
\* the error flag set, and sent tool_call in_progress and tool_call_update
\* failed
C37_Witness ==
    /\ Len(turns) = 1
    /\ events = 2
    /\ Len(outbox) = 2
    /\ outbox[1].kind = "tool_call" /\ outbox[1].status = "in_progress"
    /\ outbox[2].kind = "tool_call_update" /\ outbox[2].status = "failed"

(***************************************************************************)
(* Claims about the final text (SpecReply)                                 *)
(***************************************************************************)
\* C38: a Turn that is not cancelled and whose dispatch resolves is answered
\* end_turn, with the text of the last deliver call of kind "final" that
\* carried text as content, and with no content when there was no such call;
\* a deliver call on a cancelled Turn changes nothing the handlers read, and
\* a cancelled or error response never carries content
C38_FinalTextIsLastFinal ==
    /\ [][\A t \in 1..Len(turns) :
            (DispatchResolve(t) /\ ~turns[t].cancelled) =>
                /\ Len(outbox') = Len(outbox) + 1
                /\ outbox'[Len(outbox')].method = "session.promptResponse"
                /\ outbox'[Len(outbox')].turn = t
                /\ outbox'[Len(outbox')].kind = "end_turn"
                /\ outbox'[Len(outbox')].content =
                       (IF turns[t].lastFinalCall = "" THEN <<>>
                        ELSE <<turns[t].lastFinalCall>>)]_vars
    /\ [][\A t \in 1..Len(turns), kind \in DeliverKinds, text \in ReplyTexts :
            (DeliverReply(t, kind, text) /\ turns[t].cancelled) =>
                turns'[t].finalText = turns[t].finalText]_vars
    /\ [](\A i \in 1..Len(outbox) :
             outbox[i].kind \in {"cancelled", "error"} => outbox[i].content = <<>>)

\* C38 witness: the only Turn got a final text, was not cancelled, got a
\* second final text, and was answered end_turn with the second one
C38_Witness ==
    /\ Len(turns) = 1
    /\ turns[1].pc = "done"
    /\ ~turns[1].cancelled
    /\ turns[1].lastFinalCall = "second"
    /\ Len(outbox) = 1
    /\ outbox[1].kind = "end_turn"
    /\ outbox[1].content = <<"second">>

C40_CursorIsEmittedText ==
    \A t \in 1..Len(turns) :
        turns[t].lastEmittedText = ConcatContent(ChunksOf(outbox, t))

====
